---------------------------- MODULE Spec2Model ----------------------------
(***************************************************************************)
(* Model of lida::MemoryPool<T, G> and lida::detail::MemoryChunk<ObjSize>  *)
(* (include/lida/MemoryPool.hpp).                                          *)
(*                                                                         *)
(* A chunk owns a buffer of max slots of ObjSize bytes.  The first byte of *)
(* a free slot stores the index of the next free slot (intrusive list).   *)
(* The pool is the static std::vector of chunks returned by get_chunks(). *)
(* Pointers are byte addresses; only the first byte of every slot is kept, *)
(* because it is the only byte the allocator ever reads or writes.        *)
(***************************************************************************)
EXTENDS Integers, Sequences, FiniteSets

\* std::numeric_limits<uint8_t>::max(): slots per chunk and list terminator.
max == 255

\* sizeof(T), the template parameter ObjSize of MemoryChunk.
ObjSize == 4

\* Number of buffer-sized regions of the heap that operator new[] can return.
NumBuffers == 2

\* Largest number of chunks the vector is allowed to hold.
MaxChunks == 2

\* Largest number of pointers the caller holds at one time.
MaxLive == 257

\* The caller gives back pointers to the slots 0..MaxFreeSlot only.
MaxFreeSlot == 1

\* A caller that breaks the contract holds fewer pointers than this, and
\* allocates while every chunk counts fewer taken slots than this.
MaxMisuseLive == 3

\* Largest number of times the caller frees a pointer a second time.
MaxRepeats == 1

\* Callers of several instantiations hold at most this many pointers.
MaxSharedLive == 2

\* Values of a uint8_t.
Byte == 0 .. 255

\* Arithmetic on uint8_t wraps around.
Wrap8(x) == x % 256

NULL == 0

\* The conditions the checked build signals (std::runtime_error).
NoThrow == "none"
OutOfCapacity == "MemoryChunk:: out of storage"
InvalidPointer == "MemoryChunk:: passed invalid pointer to deallocate"
InvalidSize == "MemoryPool is only able for allocating single objects"

VARIABLES
    chunks,    \* get_chunks(): the sequence of MemoryChunk of this pool
    live,      \* pointers returned by allocate and not yet deallocated
    NDEBUG,    \* TRUE: unchecked build, FALSE: checked build
    call,      \* the last call made on the pool: its first argument, its
               \* size argument (0 if it has none), and its outcome
    repeats,   \* number of repeated deallocations made so far
    pools,     \* get_chunks() of every instantiation MemoryPool<T, G>
    held,      \* per instantiation: pointers got from it and not given back
    nodes,     \* per owner group: pointers got through rebind<U>::other
    scall      \* the last call made on one of several instantiations

vars == <<chunks, live, NDEBUG, call, repeats, pools, held, nodes, scall>>

\* The state of the instantiations used side by side.
svars == <<pools, held, nodes, scall>>

-----------------------------------------------------------------------------
(* The heap: operator new[] returns the start of a region that overlaps no *)
(* buffer currently owned by a chunk.                                      *)

Buffers == 1 .. NumBuffers

BufferAddr(k) == k * ObjSize * max

HeapAddrs == { BufferAddr(k) : k \in Buffers }

\* Addresses new[] may return while the chunks of cs own their buffers.
FreeAddrs(cs) == HeapAddrs \ { cs[i].data : i \in 1 .. Len(cs) }

-----------------------------------------------------------------------------
(* MemoryChunk                                                             *)

\* MemoryChunk(): current(0), count(max), data[i * ObjSize] = i + 1.
NewChunk(addr) ==
    [ data    |-> addr,
      current |-> 0,
      count   |-> max,
      mem     |-> [i \in 0 .. max - 1 |-> i + 1] ]

\* has_space that reports a chunk with one free slot as full.
has_space_one_left(c) == c.count > 1

has_space(c) == c.count # 0

contains(c, ptr) == (ptr >= c.data) /\ (ptr < c.data + ObjSize * max)

is_free(c) == c.count = max

\* First byte of a slot the caller holds: the object stored there is the
\* caller's, so the byte stands for any value the caller may store.
CallerByte == 0 - 1

\* The values the first byte of a caller's object takes.
CallerBytes == {0, 1}

\* The values data[current * ObjSize] can yield: the stored byte, a byte of
\* the caller's object when the slot is held by the caller, or any byte when
\* current lies outside the buffer (an out-of-bounds read).
NextIndex(c) ==
    IF c.current \notin DOMAIN c.mem THEN Byte
    ELSE IF c.mem[c.current] = CallerByte THEN CallerBytes
    ELSE { c.mem[c.current] }

\* MemoryChunk::allocate that does not advance current.
ChunkAllocateSameHead(c, nxt) ==
    [ ptr   |-> c.data + c.current * ObjSize,
      chunk |-> [c EXCEPT !.count = Wrap8(c.count + 255)] ]

\* MemoryChunk::allocate that does not count the slot it hands out.
ChunkAllocateNoCount(c, nxt) ==
    [ ptr   |-> c.data + c.current * ObjSize,
      chunk |-> [c EXCEPT !.current = nxt] ]

\* MemoryChunk::allocate past its checked-mode test; nxt \in NextIndex(c).
ChunkAllocate(c, nxt) ==
    [ ptr   |-> c.data + c.current * ObjSize,
      chunk |-> [c EXCEPT !.current = nxt, !.count = Wrap8(c.count + 255)] ]

\* The checked-mode test of MemoryChunk::allocate.
ChunkAllocateThrows(c, ndebug) == ~ndebug /\ ~has_space(c)

\* The checked-mode test of MemoryChunk::deallocate.
ChunkDeallocateThrows(c, ptr, ndebug) == ~ndebug /\ ~contains(c, ptr)

\* MemoryChunk::deallocate that does not count the freed slot.
ChunkDeallocateNoCount(c, ptr) ==
    LET idx == (ptr - c.data) \div ObjSize
    IN  [c EXCEPT !.mem[idx] = c.current,
                  !.current = idx]

\* MemoryChunk::deallocate that links the slot but keeps the old head.
ChunkDeallocateKeepHead(c, ptr) ==
    LET idx == (ptr - c.data) \div ObjSize
    IN  [c EXCEPT !.mem[idx] = c.current,
                  !.count = Wrap8(c.count + 1)]

\* MemoryChunk::deallocate past its checked-mode test, for a slot-aligned ptr.
ChunkDeallocate(c, ptr) ==
    LET idx == (ptr - c.data) \div ObjSize
    IN  [c EXCEPT !.mem[idx] = c.current,
                  !.current = idx,
                  !.count = Wrap8(c.count + 1)]

-----------------------------------------------------------------------------
(* MemoryPool                                                              *)

\* A loop that keeps the last chunk with space instead of the first.
LastWithSpace(cs) ==
    IF \E i \in 1 .. Len(cs) : has_space(cs[i])
    THEN CHOOSE i \in 1 .. Len(cs) :
             has_space(cs[i]) /\ \A j \in i + 1 .. Len(cs) : ~has_space(cs[j])
    ELSE 0

\* A loop that takes the first chunk without asking has_space().
FirstChunk(cs) == IF Len(cs) > 0 THEN 1 ELSE 0

\* for (auto& chunk : chunks) if (chunk.has_space()): the index of the first
\* chunk with space, or 0 when the loop ends without one.
FirstWithSpace(cs) ==
    IF \E i \in 1 .. Len(cs) : has_space(cs[i])
    THEN CHOOSE i \in 1 .. Len(cs) :
             has_space(cs[i]) /\ \A j \in 1 .. i - 1 : ~has_space(cs[j])
    ELSE 0

\* for (it = begin; it != end; ++it) if (chunk.contains(ptr)): the index of
\* the first chunk that contains ptr, or 0 when the loop ends without one.
FirstContaining(cs, ptr) ==
    IF \E i \in 1 .. Len(cs) : contains(cs[i], ptr)
    THEN CHOOSE i \in 1 .. Len(cs) :
             contains(cs[i], ptr) /\ \A j \in 1 .. i - 1 : ~contains(cs[j], ptr)
    ELSE 0

\* An erase that drops the last chunk instead of the one at i.
ErasePopBack(cs, i) == [j \in 1 .. Len(cs) - 1 |-> cs[j]]

\* An erase whose move gives the later chunks new heads and counts.
EraseResetMoved(cs, i) ==
    [j \in 1 .. Len(cs) - 1 |->
        IF j < i THEN cs[j]
        ELSE [cs[j + 1] EXCEPT !.current = 0, !.count = max]]

\* std::vector::erase(it): the later chunks move down one place.
Erase(cs, i) == [j \in 1 .. Len(cs) - 1 |-> IF j < i THEN cs[j] ELSE cs[j + 1]]

\* The chunk MemoryPool::allocate takes the slot from, given the address new[]
\* returns if a chunk has to be created: <<sequence, index>>.
AllocTarget(cs, addr) ==
    IF FirstWithSpace(cs) # 0
    THEN <<cs, FirstWithSpace(cs)>>
    ELSE <<Append(cs, NewChunk(addr)), Len(cs) + 1>>

\* MemoryPool::allocate that tests size only after it has taken the slot.
PoolAllocateLateTest(cs, size, ndebug, addr, nxt) ==
    LET t == AllocTarget(cs, addr)
        r == ChunkAllocate(t[1][t[2]], nxt)
    IN  IF ~ndebug /\ size # 1
        THEN [chunks |-> [t[1] EXCEPT ![t[2]] = r.chunk],
              ret |-> NULL, thrown |-> InvalidSize]
        ELSE [chunks |-> [t[1] EXCEPT ![t[2]] = r.chunk],
              ret |-> r.ptr, thrown |-> NoThrow]

\* MemoryPool::allocate(size) in the build given by ndebug.
PoolAllocate(cs, size, ndebug, addr, nxt) ==
    IF ~ndebug /\ size # 1
    THEN [chunks |-> cs, ret |-> NULL, thrown |-> InvalidSize]
    ELSE LET t == AllocTarget(cs, addr)
             r == ChunkAllocate(t[1][t[2]], nxt)
         IN  IF ChunkAllocateThrows(t[1][t[2]], ndebug)
             THEN [chunks |-> t[1], ret |-> NULL, thrown |-> OutOfCapacity]
             ELSE [chunks |-> [t[1] EXCEPT ![t[2]] = r.chunk],
                   ret |-> r.ptr, thrown |-> NoThrow]

\* The addresses new[] may return to allocate: one is asked for only when
\* no chunk has space.
NewAddrs(cs) == IF FirstWithSpace(cs) = 0 THEN FreeAddrs(cs) ELSE {NULL}

\* The bytes allocate may read as the next free index.
AllocNext(cs, addr) ==
    LET t == AllocTarget(cs, addr) IN NextIndex(t[1][t[2]])

\* MemoryPool::deallocate that never erases a chunk.
PoolDeallocateKeep(cs, ptr, size, ndebug) ==
    LET i == FirstContaining(cs, ptr)
    IN  IF i = 0
        THEN [chunks |-> cs, thrown |-> NoThrow]
        ELSE [chunks |-> [cs EXCEPT ![i] = ChunkDeallocate(cs[i], ptr)],
              thrown |-> NoThrow]

\* MemoryPool::deallocate that erases the last chunk it looked at when no
\* chunk contains ptr.
PoolDeallocateEraseEnd(cs, ptr, size, ndebug) ==
    LET i == FirstContaining(cs, ptr)
    IN  IF i = 0
        THEN [chunks |-> IF cs = <<>> THEN cs ELSE SubSeq(cs, 1, Len(cs) - 1),
              thrown |-> NoThrow]
        ELSE LET c == ChunkDeallocate(cs[i], ptr)
             IN  [chunks |-> IF is_free(c)
                             THEN [j \in 1 .. Len(cs) - 1 |->
                                      IF j < i THEN cs[j] ELSE cs[j + 1]]
                             ELSE [cs EXCEPT ![i] = c],
                  thrown |-> NoThrow]

\* MemoryPool::deallocate(ptr, size) in the build given by ndebug: size is
\* unused, and a ptr that no chunk contains falls out of the loop.
PoolDeallocate(cs, ptr, size, ndebug) ==
    LET i == FirstContaining(cs, ptr)
    IN  IF i = 0
        THEN [chunks |-> cs, thrown |-> NoThrow]
        ELSE IF ChunkDeallocateThrows(cs[i], ptr, ndebug)
        THEN [chunks |-> cs, thrown |-> InvalidPointer]
        ELSE LET c == ChunkDeallocate(cs[i], ptr)
             IN  [chunks |-> IF is_free(c) THEN Erase(cs, i)
                                         ELSE [cs EXCEPT ![i] = c],
                  thrown |-> NoThrow]

\* A count that rounds up even when numElements is a multiple of max.
ReserveCountUp(numElements) == numElements \div max + 1

\* count in MemoryPool::reserve.
ReserveCount(numElements) ==
    IF numElements % max = 0
    THEN numElements \div max
    ELSE numElements \div max + 1

\* std::vector::resize(count) when count > size(): default-constructed chunks
\* are appended, one for each address of the sequence addrs.
RECURSIVE Grow(_, _)
Grow(cs, addrs) ==
    IF addrs = <<>> THEN cs
    ELSE Grow(Append(cs, NewChunk(Head(addrs))), Tail(addrs))

\* MemoryPool::reserve(numElements).
PoolReserve(cs, numElements, addrs) ==
    IF ReserveCount(numElements) > Len(cs) THEN Grow(cs, addrs) ELSE cs

\* Sequences of n distinct addresses new[] can return in a row.
RECURSIVE FreshAddrs(_, _)
FreshAddrs(free, n) ==
    IF n <= 0 THEN { <<>> }
    ELSE UNION { { <<a>> \o s : s \in FreshAddrs(free \ {a}, n - 1) } : a \in free }

-----------------------------------------------------------------------------
(* Instantiations: MemoryPool<T, G> is a class template, and the vector of *)
(* chunks is a static local of its member get_chunks().                    *)

\* Element types; both have size ObjSize.
Types == {"T", "U"}

\* Group tags G of the instantiations MemoryPool<T, G> in use.
Groups == {0, 1}

\* The default template argument of G.
DefaultGroup == 0

\* An instantiation MemoryPool<T, G> is named by <<T, G>>.
Keys == Types \X Groups

\* An instantiation whose storage depends on the element type alone.
StorageOfType(ps, key) == ps[<<key[1], DefaultGroup>>]

\* get_chunks() of the instantiation key: its own static vector.
get_chunks(ps, key) == ps[key]

\* rebind<U>::other of the instantiation key, which is MemoryPool<U>.
Rebind(key, u) == <<u, DefaultGroup>>

\* Addresses new[] may return while the chunks of all pools of ps own their
\* buffers.
SharedFreeAddrs(ps) ==
    HeapAddrs \ UNION { { ps[k][i].data : i \in 1 .. Len(ps[k]) } : k \in Keys }

-----------------------------------------------------------------------------
(* The caller                                                              *)

\* Slot of a pointer inside the buffer that starts at data.
SlotOf(ptr, data) == (ptr - data) \div ObjSize

\* The caller constructs its object in the slot allocate returned.
Construct(cs, ptr) ==
    [i \in 1 .. Len(cs) |->
        IF contains(cs[i], ptr)
        THEN [cs[i] EXCEPT !.mem[SlotOf(ptr, cs[i].data)] = CallerByte]
        ELSE cs[i]]

\* Slots whose pointers the caller gives back.
FreeableSlots == 0 .. MaxFreeSlot

\* Arguments the caller passes to reserve.
ReserveArgs == {max, 500, max * MaxChunks}

Init ==
    /\ chunks = <<>>
    /\ live = {}
    /\ NDEBUG \in BOOLEAN
    /\ call = [op |-> "none", arg |-> 0, size |-> 0, ret |-> NULL,
               thrown |-> NoThrow]
    /\ repeats = 0
    /\ pools = [k \in Keys |-> <<>>]
    /\ held = [k \in Keys |-> {}]
    /\ nodes = [g \in Groups |-> {}]
    /\ scall = [op |-> "none", owner |-> <<"T", DefaultGroup>>,
                key |-> <<"T", DefaultGroup>>, ret |-> NULL]

\* allocate(1)
Allocate ==
    /\ Cardinality(live) < MaxLive
    /\ FirstWithSpace(chunks) = 0 => Len(chunks) < MaxChunks
    /\ \E addr \in NewAddrs(chunks) :
         \E nxt \in AllocNext(chunks, addr) :
           LET r == PoolAllocate(chunks, 1, NDEBUG, addr, nxt)
           IN  /\ chunks' = Construct(r.chunks, r.ret)
               /\ live' = live \cup {r.ret}
               /\ call' = [op |-> "allocate", arg |-> 1, size |-> 1, ret |-> r.ret,
                           thrown |-> r.thrown]
    /\ UNCHANGED <<NDEBUG, repeats, svars>>

\* deallocate(ptr, 1) of a pointer the caller holds
Deallocate ==
    /\ \E ptr \in live :
         /\ \E i \in 1 .. Len(chunks) :
              /\ contains(chunks[i], ptr)
              /\ SlotOf(ptr, chunks[i].data) \in FreeableSlots
         /\ LET r == PoolDeallocate(chunks, ptr, 1, NDEBUG)
            IN  /\ chunks' = r.chunks
                /\ live' = live \ {ptr}
                /\ call' = [op |-> "deallocate", arg |-> ptr, size |-> 1, ret |-> NULL,
                            thrown |-> r.thrown]
    /\ UNCHANGED <<NDEBUG, repeats, svars>>

\* reserve(n)
Reserve ==
    /\ \E n \in ReserveArgs :
         /\ n <= max * MaxChunks
         /\ \E addrs \in FreshAddrs(FreeAddrs(chunks), ReserveCount(n) - Len(chunks)) :
              /\ chunks' = PoolReserve(chunks, n, addrs)
              /\ call' = [op |-> "reserve", arg |-> n, size |-> 0, ret |-> NULL,
                          thrown |-> NoThrow]
    /\ UNCHANGED <<live, NDEBUG, repeats, svars>>

Next == Allocate \/ Deallocate \/ Reserve

Spec == Init /\ [][Next]_vars

\* A pool on which only allocate(1) is called.
AllocOnlyNext == Allocate

AllocSpec == Init /\ [][AllocOnlyNext]_vars

\* deallocate(ptr, 1) of the pointer that a chunk handed out last, by a
\* caller that gives its pointers back in the reverse order of allocation
DeallocateNewest ==
    /\ \E ptr \in live :
         /\ \E i \in 1 .. Len(chunks) :
              /\ contains(chunks[i], ptr)
              /\ SlotOf(ptr, chunks[i].data) + 1 = chunks[i].current
         /\ LET r == PoolDeallocate(chunks, ptr, 1, NDEBUG)
            IN  /\ chunks' = r.chunks
                /\ live' = live \ {ptr}
                /\ call' = [op |-> "deallocate", arg |-> ptr, size |-> 1,
                            ret |-> NULL, thrown |-> r.thrown]
    /\ UNCHANGED <<NDEBUG, repeats, svars>>

\* A pool whose caller frees in stack order, so that whole chunks drain.
StackNext == Allocate \/ DeallocateNewest \/ Reserve

StackSpec == Init /\ [][StackNext]_vars

-----------------------------------------------------------------------------
(* Calls that break the contract                                           *)

\* Slot-aligned addresses that lie in no chunk of cs: the null pointer and
\* the first and last slot of the regions no chunk owns (such as pointers
\* into a chunk that was released).
ForeignPtrs(cs) ==
    { p \in {NULL} \cup { a + s * ObjSize : a \in HeapAddrs, s \in {0, max - 1} } :
        FirstContaining(cs, p) = 0 }

\* deallocate(ptr, 1) of an address no chunk contains
DeallocateForeign ==
    /\ \E ptr \in ForeignPtrs(chunks) :
         LET r == PoolDeallocate(chunks, ptr, 1, NDEBUG)
         IN  /\ chunks' = r.chunks
             /\ live' = live \ {ptr}
             /\ call' = [op |-> "deallocate", arg |-> ptr, size |-> 1, ret |-> NULL,
                         thrown |-> r.thrown]
    /\ UNCHANGED <<NDEBUG, repeats, svars>>

\* deallocate(ptr, 1) repeated for the pointer that was just deallocated
DeallocateAgain ==
    /\ repeats < MaxRepeats
    /\ call.op = "deallocate"
    /\ call.arg \notin live
    /\ FirstContaining(chunks, call.arg) # 0
    /\ LET r == PoolDeallocate(chunks, call.arg, 1, NDEBUG)
       IN  /\ chunks' = r.chunks
           /\ call' = [op |-> "deallocate", arg |-> call.arg, size |-> 1, ret |-> NULL,
                       thrown |-> r.thrown]
    /\ repeats' = repeats + 1
    /\ UNCHANGED <<live, NDEBUG, svars>>

\* allocate(1) by a caller that holds few pointers
AllocateFew ==
    /\ Cardinality(live) < MaxMisuseLive
    /\ \A i \in 1 .. Len(chunks) : chunks[i].count > max - MaxMisuseLive
    /\ Allocate

\* Values other than 1 that the caller passes as size.
BadSizes == {0, 2}

\* allocate(size) with size # 1: the checked build throws; the unchecked
\* build ignores size and hands out one slot.
AllocateSized ==
    /\ Cardinality(live) < MaxMisuseLive
    /\ \A i \in 1 .. Len(chunks) : chunks[i].count > max - MaxMisuseLive
    /\ FirstWithSpace(chunks) = 0 => Len(chunks) < MaxChunks
    /\ \E size \in BadSizes :
         \E addr \in NewAddrs(chunks) :
           \E nxt \in AllocNext(chunks, addr) :
             LET r == PoolAllocate(chunks, size, NDEBUG, addr, nxt)
             IN  /\ chunks' = IF r.thrown = NoThrow
                              THEN Construct(r.chunks, r.ret)
                              ELSE r.chunks
                 /\ live' = IF r.thrown = NoThrow THEN live \cup {r.ret} ELSE live
                 /\ call' = [op |-> "allocate", arg |-> size, size |-> size,
                             ret |-> r.ret, thrown |-> r.thrown]
    /\ UNCHANGED <<NDEBUG, repeats, svars>>

\* deallocate(ptr, size) with size # 1 of a pointer the caller holds
DeallocateSized ==
    /\ \E size \in BadSizes :
         \E ptr \in live :
           /\ \E i \in 1 .. Len(chunks) :
                /\ contains(chunks[i], ptr)
                /\ SlotOf(ptr, chunks[i].data) \in FreeableSlots
           /\ LET r == PoolDeallocate(chunks, ptr, size, NDEBUG)
              IN  /\ chunks' = r.chunks
                  /\ live' = IF r.thrown = NoThrow THEN live \ {ptr} ELSE live
                  /\ call' = [op |-> "deallocate", arg |-> ptr, size |-> size,
                              ret |-> NULL, thrown |-> r.thrown]
    /\ UNCHANGED <<NDEBUG, repeats, svars>>

MisuseNext ==
    \/ AllocateFew
    \/ Deallocate
    \/ Reserve
    \/ DeallocateForeign
    \/ DeallocateAgain
    \/ AllocateSized
    \/ DeallocateSized

MisuseSpec == Init /\ [][MisuseNext]_vars

-----------------------------------------------------------------------------
(* Several instantiations used side by side                                *)

\* Number of pointers the callers hold.
SharedLive ==
    Cardinality(UNION { held[k] : k \in Keys })
        + Cardinality(UNION { nodes[g] : g \in Groups })

\* MemoryPool<T, G>::allocate(1) run by the instantiation key.
KeyAllocate(key, addr, nxt) ==
    LET r == PoolAllocate(get_chunks(pools, key), 1, NDEBUG, addr, nxt)
    IN  [pools |-> [pools EXCEPT ![key] = Construct(r.chunks, r.ret)],
         ret |-> r.ret]

\* MemoryPool<T, G>::deallocate(ptr, 1) run by the instantiation key.
KeyDeallocate(key, ptr) ==
    [pools EXCEPT ![key] =
        PoolDeallocate(get_chunks(pools, key), ptr, 1, NDEBUG).chunks]

\* The addresses new[] may return to allocate of the instantiation key.
SharedNewAddrs(key) ==
    IF FirstWithSpace(pools[key]) = 0 THEN SharedFreeAddrs(pools) ELSE {NULL}

\* MemoryPool<T, G>::allocate(1) called on the instantiation key itself
SharedAllocate ==
    /\ SharedLive < MaxSharedLive
    /\ \E key \in Keys :
         \E addr \in SharedNewAddrs(key) :
           \E nxt \in AllocNext(pools[key], addr) :
             LET r == KeyAllocate(key, addr, nxt)
             IN  /\ pools' = r.pools
                 /\ held' = [held EXCEPT ![key] = @ \cup {r.ret}]
                 /\ scall' = [op |-> "allocate", owner |-> key, key |-> key,
                              ret |-> r.ret]
    /\ UNCHANGED <<chunks, live, NDEBUG, call, repeats, nodes>>

\* deallocate(ptr, 1) called on the instantiation that handed ptr out
SharedDeallocate ==
    /\ \E key \in Keys :
         \E ptr \in held[key] :
           /\ pools' = KeyDeallocate(key, ptr)
           /\ held' = [held EXCEPT ![key] = @ \ {ptr}]
           /\ scall' = [op |-> "deallocate", owner |-> key, key |-> key,
                        ret |-> NULL]
    /\ UNCHANGED <<chunks, live, NDEBUG, call, repeats, nodes>>

\* reserve(max) called on the instantiation key
SharedReserve ==
    /\ \E key \in Keys :
         \E addrs \in FreshAddrs(SharedFreeAddrs(pools),
                                 ReserveCount(max) - Len(pools[key])) :
           /\ pools' = [pools EXCEPT ![key] = PoolReserve(@, max, addrs)]
           /\ scall' = [op |-> "reserve", owner |-> key, key |-> key,
                        ret |-> NULL]
    /\ UNCHANGED <<chunks, live, NDEBUG, call, repeats, held, nodes>>

\* An owner MemoryPool<T, g> allocates a node of type U through
\* rebind<U>::other.
ReboundAllocate ==
    /\ SharedLive < MaxSharedLive
    /\ \E g \in Groups :
         LET key == Rebind(<<"T", g>>, "U")
         IN  \E addr \in SharedNewAddrs(key) :
               \E nxt \in AllocNext(pools[key], addr) :
                 LET r == KeyAllocate(key, addr, nxt)
                 IN  /\ pools' = r.pools
                     /\ nodes' = [nodes EXCEPT ![g] = @ \cup {r.ret}]
                     /\ scall' = [op |-> "allocate", owner |-> <<"T", g>>,
                                  key |-> key, ret |-> r.ret]
    /\ UNCHANGED <<chunks, live, NDEBUG, call, repeats, held>>

\* An owner MemoryPool<T, g> gives a node back through rebind<U>::other.
ReboundDeallocate ==
    /\ \E g \in Groups :
         \E ptr \in nodes[g] :
           LET key == Rebind(<<"T", g>>, "U")
           IN  /\ pools' = KeyDeallocate(key, ptr)
               /\ nodes' = [nodes EXCEPT ![g] = @ \ {ptr}]
               /\ scall' = [op |-> "deallocate", owner |-> <<"T", g>>,
                            key |-> key, ret |-> NULL]
    /\ UNCHANGED <<chunks, live, NDEBUG, call, repeats, held>>

SharedNext ==
    \/ SharedAllocate
    \/ SharedDeallocate
    \/ SharedReserve
    \/ ReboundAllocate
    \/ ReboundDeallocate

SharedSpec == Init /\ [][SharedNext]_vars

-----------------------------------------------------------------------------
(* Properties                                                              *)

\* ceil(n / d), computed without the case split of reserve.
CeilDiv(n, d) == (n + d - 1) \div d

\* The pointers the caller holds into chunk c.
LiveIn(c) == { q \in live : contains(c, q) }

\* C1: allocate never returns a pointer that is currently outstanding, so
\* the pointers outstanding at any moment are pairwise distinct.
C1_AllocateReturnsFreshPointer ==
    \A addr \in NewAddrs(chunks) : \A nxt \in AllocNext(chunks, addr) :
        LET r == PoolAllocate(chunks, 1, NDEBUG, addr, nxt)
        IN  r.thrown = NoThrow /\ r.ret # NULL /\ r.ret \notin live

\* An allocate has just handed out slot 0 of the first chunk again (it was
\* freed from a full chunk) while more than max pointers are outstanding.
C1_Witness ==
    /\ call.op = "allocate"
    /\ Len(chunks) = 2
    /\ call.ret = chunks[1].data
    /\ call.ret \in live
    /\ Cardinality(live) > max

\* allocate(1) followed by deallocate of the returned pointer leaves the
\* number of chunks and every chunk's free count as they were in cs.
RoundTripKeepsCounts(cs) ==
    \A addr \in NewAddrs(cs) : \A nxt \in AllocNext(cs, addr) :
        LET a == PoolAllocate(cs, 1, NDEBUG, addr, nxt)
            d == PoolDeallocate(a.chunks, a.ret, 1, NDEBUG)
        IN  /\ Len(d.chunks) = Len(cs)
            /\ \A i \in 1 .. Len(cs) : d.chunks[i].count = cs[i].count

\* allocate(1) followed by deallocate of the returned pointer removes the
\* chunk the slot came from and leaves the other chunks' free counts alone.
RoundTripDropsChunk(cs) ==
    \A addr \in NewAddrs(cs) : \A nxt \in AllocNext(cs, addr) :
        LET a == PoolAllocate(cs, 1, NDEBUG, addr, nxt)
            d == PoolDeallocate(a.chunks, a.ret, 1, NDEBUG)
            k == FirstWithSpace(cs)
        IN  /\ Len(d.chunks) = Len(cs) - 1
            /\ \A i \in 1 .. Len(d.chunks) :
                   d.chunks[i].count = cs[IF i < k THEN i ELSE i + 1].count

\* C2 as stated: the round trip keeps the counts from every reachable state.
C2_Original == RoundTripKeepsCounts(chunks)

\* C2 (amended): allocate(1) followed by deallocate of the returned pointer
\* leaves the number of chunks and every chunk's free count unchanged,
\* provided the chunk the slot is taken from is not fully free beforehand;
\* when it is fully free (a chunk appended by reserve), the pair of calls
\* removes that chunk.
C2_RoundTrip ==
    IF FirstWithSpace(chunks) # 0 /\ is_free(chunks[FirstWithSpace(chunks)])
    THEN RoundTripDropsChunk(chunks)
    ELSE RoundTripKeepsCounts(chunks)

\* Pointers are outstanding and every chunk is full: the round trip appends
\* a chunk and releases it again.
C2_Witness ==
    /\ Len(chunks) = 1
    /\ ~has_space(chunks[1])
    /\ Cardinality(live) = max

\* C3 as stated: no chunk of the sequence is fully free.
C3_Original == \A i \in 1 .. Len(chunks) : ~is_free(chunks[i])

\* C3 (amended): a fully-free chunk is in the sequence only if reserve
\* appended it and no slot was taken from it since; allocate and deallocate
\* never leave behind a chunk that became fully free.
C3_FullyFreeOnlyFromReserve ==
    [][ \A i \in 1 .. Len(chunks') :
          is_free(chunks'[i]) =>
            \/ \E j \in 1 .. Len(chunks) : chunks[j] = chunks'[i]
            \/ call'.op = "reserve" /\ i > Len(chunks) ]_vars

\* A deallocate has left a reserved, untouched chunk behind a chunk in use.
C3_Witness ==
    /\ call.op = "deallocate"
    /\ Len(chunks) = 2
    /\ ~is_free(chunks[1])
    /\ is_free(chunks[2])

\* C4: a deallocate that frees the last outstanding slot of a chunk removes
\* that chunk in the same call (one chunk fewer); a deallocate that leaves a
\* slot of the chunk outstanding keeps the number of chunks.
C4_EagerRelease ==
    [][ call'.op = "deallocate" =>
          LET p == call'.arg
              i == FirstContaining(chunks, p)
          IN  /\ i # 0
              /\ IF ~\E q \in live : q # p /\ contains(chunks[i], q)
                 THEN /\ Len(chunks') = Len(chunks) - 1
                      /\ \A j \in 1 .. Len(chunks') :
                             chunks'[j].data # chunks[i].data
                 ELSE /\ Len(chunks') = Len(chunks)
                      /\ chunks'[i].data = chunks[i].data ]_vars

\* A deallocate has released one of two chunks: the pointer it freed
\* lies in no chunk any more and the chunk that is left is in use.
C4_Witness ==
    /\ call.op = "deallocate"
    /\ Len(chunks) = 1
    /\ FirstContaining(chunks, call.arg) = 0
    /\ LiveIn(chunks[1]) # {}

\* C5: after k allocate(1) calls on an empty pool there are ceil(k / 255)
\* chunks; after 255 there is one chunk without space, after 256 there are two.
C5_CapacityBoundary ==
    LET k == Cardinality(live)
    IN  /\ Len(chunks) = CeilDiv(k, 255)
        /\ k = 255 => Len(chunks) = 1 /\ ~has_space(chunks[1])
        /\ k = 256 => Len(chunks) = 2 /\ ~has_space(chunks[1])
                                     /\ has_space(chunks[2])

\* The 256th allocation has created the second chunk.
C5_Witness ==
    /\ call.op = "allocate"
    /\ Cardinality(live) = 256
    /\ Len(chunks) = 2
    /\ call.ret = chunks[2].data

\* C6: reserve(n) on c chunks leaves max(c, ceil(n / 255)) chunks; it only
\* appends fully-free chunks in fresh buffers, hands out no slot, leaves the
\* existing chunks unchanged, does nothing when ceil(n / 255) <= c, and a
\* second reserve(n) does nothing; reserve(500) on an empty pool gives 2.
C6_Reserve ==
    [][ call'.op = "reserve" =>
          LET n == call'.arg
              c == Len(chunks)
              want == CeilDiv(n, 255)
          IN  /\ Len(chunks') = IF want > c THEN want ELSE c
              /\ \A i \in 1 .. c : chunks'[i] = chunks[i]
              /\ \A i \in c + 1 .. Len(chunks') :
                     /\ chunks'[i].count = 255
                     /\ chunks'[i].current = 0
                     /\ \A s \in 0 .. 254 : chunks'[i].mem[s] = s + 1
                     /\ \A j \in 1 .. Len(chunks') :
                            j # i => chunks'[j].data # chunks'[i].data
              /\ live' = live
              /\ want <= c => chunks' = chunks
              /\ PoolReserve(chunks', n, <<>>) = chunks'
              /\ (n = 500 /\ c = 0) => Len(chunks') = 2 ]_vars

\* reserve(500) has appended a fully-free chunk to a pool in use.
C6_Witness ==
    /\ call.op = "reserve"
    /\ call.arg = 500
    /\ Len(chunks) = 2
    /\ LiveIn(chunks[1]) # {}
    /\ chunks[2] = NewChunk(chunks[2].data)

\* C7 as stated: an allocate that immediately follows deallocate(p) returns p.
C7_Original ==
    [][ (call.op = "deallocate" /\ call'.op = "allocate")
          => call'.ret = call.arg ]_vars

\* C7 (amended): an allocate that immediately follows deallocate(p) returns
\* p, provided p's chunk is still in the pool after the deallocate (p was
\* not its last outstanding slot) and no earlier chunk has a free slot.
C7_LifoReuse ==
    [][ ( /\ call.op = "deallocate"
          /\ call'.op = "allocate"
          /\ FirstContaining(chunks, call.arg) # 0
          /\ FirstWithSpace(chunks) = FirstContaining(chunks, call.arg) )
          => call'.ret = call.arg ]_vars

\* A pointer into the second chunk was just deallocated, its chunk is still
\* there and the first chunk is full: the next allocate is the claim's case.
C7_Witness ==
    /\ call.op = "deallocate"
    /\ Len(chunks) = 2
    /\ FirstContaining(chunks, call.arg) = 2
    /\ FirstWithSpace(chunks) = 2

\* C8: in the checked build, deallocate of an address that no chunk of the
\* pool contains signals InvalidPointer.
C8_ForeignPointerSignalled ==
    [][ ( /\ ~NDEBUG
          /\ call'.op = "deallocate"
          /\ FirstContaining(chunks, call'.arg) = 0 )
          => call'.thrown = InvalidPointer ]_vars

\* C9: deallocate of an address that no chunk of the pool contains leaves
\* the chunk sequence and every chunk (head, count, links) unchanged.
C9_ForeignPointerNoEffect ==
    [][ ( /\ call'.op = "deallocate"
          /\ FirstContaining(chunks, call'.arg) = 0 )
          => chunks' = chunks ]_vars

\* deallocate(nullptr) was called on a pool of two chunks that is in use.
C9_Witness ==
    /\ call.op = "deallocate"
    /\ call.arg = NULL
    /\ Len(chunks) = 2
    /\ live # {}

\* C10: in the checked build, deallocate of a pointer whose slot is already
\* free, in a chunk still in the pool, signals InvalidPointer and does not
\* push the slot onto the free list again.
C10_DoubleFreeSignalled ==
    [][ ( /\ ~NDEBUG
          /\ call'.op = "deallocate"
          /\ call'.arg \notin live
          /\ FirstContaining(chunks, call'.arg) # 0 )
          => (call'.thrown = InvalidPointer /\ chunks' = chunks) ]_vars

\* C11: in the checked build, allocate(size) with size # 1 signals
\* InvalidSize, returns no pointer and leaves the pool unchanged.
C11_BadSizeAllocate ==
    [][ ( /\ ~NDEBUG
          /\ call'.op = "allocate"
          /\ call'.size # 1 )
          => /\ call'.thrown = InvalidSize
             /\ call'.ret = NULL
             /\ chunks' = chunks
             /\ live' = live ]_vars

\* allocate(2) was refused on a pool that is in use.
C11_Witness ==
    /\ call.op = "allocate"
    /\ call.size = 2
    /\ call.thrown = InvalidSize
    /\ Len(chunks) = 1
    /\ live # {}

\* C12: in the checked build, deallocate(ptr, size) with size # 1 signals
\* InvalidSize and frees nothing.
C12_BadSizeDeallocate ==
    [][ ( /\ ~NDEBUG
          /\ call'.op = "deallocate"
          /\ call'.size # 1 )
          => /\ call'.thrown = InvalidSize
             /\ chunks' = chunks
             /\ live' = live ]_vars

\* The buffers the chunks of the instantiation key own.
BuffersOf(key) == { pools[key][i].data : i \in 1 .. Len(pools[key]) }

\* Some chunk of the instantiation key contains ptr.
InPool(key, ptr) == FirstContaining(pools[key], ptr) # 0

\* C13: instantiations with distinct keys <<type, group>> are independent:
\* no chunk belongs to two of them, and a call on one leaves the chunk
\* sequence and the chunks of every other one unchanged, although both
\* element types have the same size.
C13_DistinctKeysIndependent ==
    [][ /\ \A k \in Keys : k # scall'.key => pools'[k] = pools[k]
        /\ \A k1, k2 \in Keys :
              k1 # k2 => BuffersOf(k1)' \cap BuffersOf(k2)' = {} ]_vars

\* allocate on MemoryPool<T, 1> took a slot of its chunk while
\* MemoryPool<U, 1> owns a chunk with an object in it.
C13_Witness ==
    /\ scall.key = <<"T", 1>>
    /\ scall.op = "allocate"
    /\ InPool(<<"T", 1>>, scall.ret)
    /\ \E q \in held[<<"U", 1>>] : InPool(<<"U", 1>>, q)

\* C14: rebinding MemoryPool<T, G> to U yields MemoryPool<U, G>, so
\* nodes allocated through the rebound pools of two owners with distinct
\* groups never come from the same chunk sequence.
C14_RebindKeepsGroup ==
    /\ scall.owner # scall.key => scall.key = <<"U", scall.owner[2]>>
    /\ \A g1, g2 \in Groups :
          g1 # g2 =>
            \A k \in Keys :
              ~ ( /\ \E p \in nodes[g1] : InPool(k, p)
                  /\ \E q \in nodes[g2] : InPool(k, q) )

\* The walk that starts at slot i and follows the stored next index n >= 1
\* times: the set of slots it visits and the index it arrives at.  The walk
\* is split in two halves; an index outside the buffer is kept in the set
\* and stays where it is.
RECURSIVE Walk(_, _, _)
Walk(c, i, n) ==
    IF i \notin DOMAIN c.mem THEN [visited |-> {i}, end |-> i]
    ELSE IF n = 1 THEN [visited |-> {i}, end |-> c.mem[i]]
    ELSE LET a == Walk(c, i, n \div 2)
             b == Walk(c, a.end, n - n \div 2)
         IN  [visited |-> a.visited \cup b.visited, end |-> b.end]

\* The free list of chunk c: from the head, count steps along the next
\* index visit count distinct slots of the buffer, none of them allocated.
FreeListOf(c) == Walk(c, c.current, c.count).visited

WellFormedFreeList(c) ==
    LET F == FreeListOf(c)
    IN  /\ c.current \in 0 .. max - 1
        /\ F \subseteq 0 .. max - 1
        /\ Cardinality(F) = c.count
        /\ \A s \in F : c.data + s * ObjSize \notin live

\* C15: in every chunk with count > 0 the head is a slot index 0..254, and
\* following the next index count times from the head visits exactly count
\* distinct slots of the buffer, none of them allocated; this holds from the
\* creation of the chunk on, and the terminator stored in the last free slot
\* is not followed.
C15_FreeListInvariant ==
    [](\A i \in 1 .. Len(chunks) :
          chunks[i].count > 0 => WellFormedFreeList(chunks[i]))

\* Slots 0 and 1 were given back in this order to a chunk that has other
\* objects in it: the list starts 1, 0 and goes on into the slots never used.
C15_Witness ==
    /\ Len(chunks) >= 1
    /\ chunks[1].current = 1
    /\ chunks[1].mem[1] = 0
    /\ chunks[1].mem[0] > 1
    /\ chunks[1].count < max
    /\ \E q \in live : contains(chunks[1], q)

\* Indices of the chunks of the pool that have a free slot.
WithFreeSlot == { i \in 1 .. Len(chunks) : chunks[i].count > 0 }

\* C16: allocate takes its slot from the earliest chunk whose count is > 0;
\* only when every chunk has count 0 a new chunk is appended at the end and
\* the slot is taken from it; the other chunks are left as they were.
C16_FirstFit ==
    [][ call'.op = "allocate" =>
          IF WithFreeSlot # {}
          THEN LET k == CHOOSE i \in WithFreeSlot :
                            \A j \in WithFreeSlot : i <= j
               IN  /\ Len(chunks') = Len(chunks)
                   /\ contains(chunks[k], call'.ret)
                   /\ chunks'[k].count = chunks[k].count - 1
                   /\ \A j \in 1 .. Len(chunks) :
                         j # k => chunks'[j] = chunks[j]
          ELSE /\ Len(chunks') = Len(chunks) + 1
               /\ contains(chunks'[Len(chunks')], call'.ret)
               /\ chunks'[Len(chunks')].count = max - 1
               /\ \A j \in 1 .. Len(chunks) : chunks'[j] = chunks[j] ]_vars

\* allocate took a slot of the first chunk although the second one has
\* space too.
C16_Witness ==
    /\ call.op = "allocate"
    /\ Len(chunks) = 2
    /\ contains(chunks[1], call.ret)
    /\ has_space(chunks[1])
    /\ has_space(chunks[2])

\* C17: the pool never calls allocate of a chunk whose count is 0: the
\* chunk it picks has space, and no call ends with OutOfCapacity.
C17_NoOutOfCapacity ==
    /\ call.thrown # OutOfCapacity
    /\ \A addr \in NewAddrs(chunks) :
          LET t == AllocTarget(chunks, addr)
          IN  t[1][t[2]].count # 0

\* In the checked build, allocate on a pool whose only chunk was full
\* took its slot from a new chunk.
C17_Witness ==
    /\ ~NDEBUG
    /\ call.op = "allocate"
    /\ call.thrown = NoThrow
    /\ Len(chunks) = 2
    /\ chunks[1].count = 0
    /\ contains(chunks[2], call.ret)

\* C18: the free list of a chunk is a stack: deallocate(p) of a live slot p
\* followed by allocate() on the same chunk returns p and puts current and
\* count back to what they were; so it is when the chunk was full, with
\* count 0 and the terminator as head.
C18_ChunkStack ==
    \A i \in 1 .. Len(chunks) :
        \A s \in FreeableSlots :
            LET c == chunks[i]
                p == c.data + s * ObjSize
                d == ChunkDeallocate(c, p)
            IN  p \in live =>
                    \A nxt \in NextIndex(d) :
                        LET a == ChunkAllocate(d, nxt)
                        IN  /\ a.ptr = p
                            /\ a.chunk.current = c.current
                            /\ a.chunk.count = c.count

\* A full chunk, with count 0 and the terminator as head, whose slot 0
\* holds a live object.
C18_Witness ==
    /\ Len(chunks) >= 1
    /\ chunks[1].count = 0
    /\ chunks[1].current = max
    /\ chunks[1].data \in live

\* C19: a step that removes a chunk or appends chunks leaves every other
\* chunk as it was (buffer, head, count and links) and in the same relative
\* order, and afterwards every outstanding pointer lies in exactly one chunk,
\* which deallocate finds and accepts it for; for the pointer to the first
\* slot of a chunk, deallocate is carried out and frees the slot.
C19_OtherChunksIntact ==
    [][ Len(chunks') # Len(chunks) =>
          /\ IF Len(chunks') < Len(chunks)
             THEN /\ Len(chunks') = Len(chunks) - 1
                  /\ \E i \in 1 .. Len(chunks) :
                        \A j \in 1 .. Len(chunks') :
                            chunks'[j] = chunks[IF j < i THEN j ELSE j + 1]
             ELSE \A j \in 1 .. Len(chunks) : chunks'[j] = chunks[j]
          /\ \A q \in live' :
                LET k == FirstContaining(chunks', q)
                IN  /\ k # 0
                    /\ \A j \in 1 .. Len(chunks') :
                          j # k => ~contains(chunks'[j], q)
                    /\ ~ChunkDeallocateThrows(chunks'[k], q, NDEBUG')
          /\ \A j \in 1 .. Len(chunks') :
                LET q == chunks'[j].data
                    r == PoolDeallocate(chunks', q, 1, NDEBUG')
                IN  q \in live' =>
                      /\ r.thrown = NoThrow
                      /\ \/ Len(r.chunks) = Len(chunks') - 1
                         \/ r.chunks[j].count = chunks'[j].count + 1
        ]_vars

\* The last object of a chunk was given back and the chunk removed, while
\* the chunk that is left holds objects and has free slots.
C19_Witness ==
    /\ call.op = "deallocate"
    /\ FirstContaining(chunks, call.arg) = 0
    /\ Len(chunks) = 1
    /\ chunks[1].count > 0
    /\ chunks[1].count < max
    /\ live # {}

\* C20: the count of every chunk lies in 0..255 and is 255 minus the number
\* of live allocations in the chunk: no slot is lost and the counter does
\* not wrap.
C20_SlotAccounting ==
    \A i \in 1 .. Len(chunks) :
        /\ chunks[i].count \in 0 .. max
        /\ chunks[i].count = max - Cardinality(LiveIn(chunks[i]))

\* Next to a full chunk, a second chunk holds one object after the first of
\* its two objects was given back.
C20_Witness ==
    /\ Len(chunks) = 2
    /\ chunks[1].count = 0
    /\ chunks[2].count = max - 1
    /\ chunks[2].current = 0
    /\ chunks[2].mem[0] = 2

=============================================================================
